---- MODULE Spec2Model ----
(***************************************************************************)
(* State-machine model of pyrpl/modules.py: the setup / callback /         *)
(* autosave lifecycle of a module (BaseModule, HardwareModule,             *)
(* SoftwareModule), its named states in the config file and the ownership  *)
(* protocol.  One module instance is modelled; every public operation is   *)
(* one action whose effect is computed by operators that follow the        *)
(* Python code statement by statement on a record `w` ("world") holding    *)
(* the instance's fields, the config branches it reaches, the pending      *)
(* exception and a trace of what happened inside the call.  The calls are  *)
(* synchronous and made one after the other: a call is one step, the next  *)
(* step hands its outcome to the caller.                                   *)
(***************************************************************************)
EXTENDS Integers, Sequences, FiniteSets, TLC

\* ------------------------------------------------------------------ bounds
NumOwners       == 2    \* requesters that may acquire the module
MaxWidgetWrites == 1    \* attribute writes a widget constructor makes
MaxInitWrites   == 2    \* attribute writes an _init_module() makes
MaxRecursion    == 3    \* nested _setup() calls the interpreter's stack holds
Window          == 128  \* codec inputs lie this close to a multiple of 2^(bitlength-1)
MaxWraps        == 2    \* codec inputs lie within this many times 2^bitlength of 0
MaxTypes        == 2    \* module types defined one after the other

\* The code never inspects an attribute value: it stores, copies and compares
\* nothing but whole values.  Two accepted values (a persisted one and one a
\* temporary owner writes) and one value the setter rejects cover its cases.
Values      == {5, 99}
Rejected    == {0}
InputValues == Values \cup Rejected
Owners      == 1..NumOwners
StateNames  == {"s"}

\* `_owner = None`
None == 0

\* class-level declarations of the modelled module type
setup_attributes    == <<"x", "y">>
gui_attributes      == setup_attributes
callback_attributes == gui_attributes
AttrNames   == {setup_attributes[i] : i \in 1..Len(setup_attributes)}
CallbackSet == {callback_attributes[i] : i \in 1..Len(callback_attributes)}
UnknownKey  == "z"                    \* a key that is no setup attribute
AllKeys     == AttrNames \cup {UnknownKey}

Kinds == {"HardwareModule", "SoftwareModule"}
Hooks == {"pass", "raise"}            \* what the module-specific _setup() does
RoutineHooks == Hooks \cup {"write"}  \* ... or it writes a callback attribute
\* ... or it calls a method of the module, as a widget's constructor also can
RoutineCalls ==
    {"self.setup()", "self.set_setup_attributes(x=99)",
     "self.set_setup_attributes(z=5)"}
WidgetCalls ==
    {"module.setup()", "module.load_state('s')", "module.free()"}

\* ------------------------------------------------------- dictionaries
Put(f, k, v) == [j \in (DOMAIN f) \cup {k} |-> IF j = k THEN v ELSE f[j]]
Drop(f, k)   == [j \in (DOMAIN f) \ {k} |-> f[j]]
EmptyDict    == [j \in {} |-> 0]
Dicts(K, V)  == UNION {[S -> V] : S \in SUBSET K}

\* keyword arguments a caller can pass to setup()/set_setup_attributes()
KwdsSet == {k \in Dicts(AllKeys, InputValues) :
                UnknownKey \in DOMAIN k => k[UnknownKey] = 5}
\* snapshots of all setup attributes
Snapshots == [AttrNames -> Values]

VARIABLES
    kind,               \* the class of the instance
    attrs,              \* current value of every setup attribute
    cfg,                \* self.c._dict: the instance's config branch
    states,             \* self.c_states: name -> saved snapshot
    callback_active,    \* self._callback_active
    autosave_active,    \* self._autosave_active
    owner,              \* self._owner
    saved,              \* history: the attribute values at the last save_state(name)
    last,               \* history: the call that has just ended: arguments,
                        \* state before it, outcome and trace
    codec,              \* a conversion of the register codec: its arguments,
                        \* how far it got and its results
    insts,              \* two instances of one module type under one parent:
                        \* the values of the setup attributes of each
    file,               \* the sections of the config file these instances reach
    slast,              \* history: the last call made on one of them
    names,              \* descriptor.name of every attribute descriptor object
    types,              \* the class bodies of the module types defined so far
    tlast,              \* history: the last type definition
    thr                 \* two threads calling one module: the stack of each,
                        \* a frame per call in progress

moduleVars == <<kind, attrs, cfg, states, callback_active, autosave_active,
                owner, saved, last>>
siblingVars == <<insts, file, slast>>
vars == <<kind, attrs, cfg, states, callback_active, autosave_active, owner,
          saved, last, codec, insts, file, slast, names, types, tlast, thr>>
metaVars == <<names, types, tlast>>

\* ------------------------------------------------------------- the world
NoError == "none"

World ==
    [kind |-> kind, attrs |-> attrs, cfg |-> cfg, states |-> states,
     callback_active |-> callback_active, autosave_active |-> autosave_active,
     owner |-> owner,
     err |-> NoError,          \* the exception in flight
     hooks |-> 0,              \* invocations of _callback()
     setupCalls |-> 0,         \* invocations of setup()
     setups |-> 0,             \* invocations of _setup()
     cbAtWrite |-> {},         \* values of _callback_active seen by attribute writes
     asAtWrite |-> {},         \* values of _autosave_active seen by attribute writes
     cbAtSetup |-> {},         \* values of _callback_active seen on entry of _setup()
     cbAfterSetup |-> {},      \* values of _callback_active when a setup() call ends
     emits |-> 0,              \* change_ownership signals emitted
     ownerAtEmit |-> {},       \* values of _owner when the signal was emitted
     written |-> <<>>,         \* the attributes written, in the order of the writes
     inner |-> {}]             \* calls made from inside the call: <<call,
                               \* _callback_active before it, and after it>>

Raise(w, e) == [w EXCEPT !.err = e]
Failed(w)   == w.err /= NoError

\* ------------------------------------------------ the code, as operators
RECURSIVE setup(_, _, _)

\* BaseModule._callback: the default hook re-runs setup() with no overrides
_callback(w, hook) == setup([w EXCEPT !.hooks = @ + 1], EmptyDict, hook)

\* setattr(self, key, value) on a setup attribute (BaseAttribute.__set__):
\* the setter validates, stores, saves to the config branch when autosave is
\* active and calls the callback hook when callbacks are active
attribute_set(w, key, value, hook) ==
    IF value \notin Values
    THEN Raise(w, "SetterError")
    ELSE LET w1 == [w EXCEPT !.attrs[key] = value,
                             !.cfg = IF w.autosave_active THEN Put(@, key, value) ELSE @,
                             !.written = Append(@, key),
                             !.cbAtWrite = @ \cup {w.callback_active},
                             !.asAtWrite = @ \cup {w.autosave_active}]
         IN  IF w1.callback_active /\ key \in CallbackSet
             THEN _callback(w1, hook)
             ELSE w1

\* variant: every entry of the snapshot is read from the first setup attribute
get_setup_attributes_first(w) == [key \in AttrNames |-> w.attrs[setup_attributes[1]]]

\* BaseModule.get_setup_attributes
get_setup_attributes(w) == [key \in AttrNames |-> w.attrs[key]]

\* variant: the loop runs from the last setup attribute to the first
RECURSIVE apply_kwds_backwards(_, _, _, _)
apply_kwds_backwards(w, kwds, i, hook) ==
    IF i > Len(setup_attributes) \/ Failed(w)
    THEN [w |-> w, kwds |-> kwds]
    ELSE LET key == setup_attributes[Len(setup_attributes) + 1 - i]
         IN  IF key \in DOMAIN kwds
             THEN apply_kwds_backwards(attribute_set(w, key, kwds[key], hook),
                                       Drop(kwds, key), i + 1, hook)
             ELSE apply_kwds_backwards(w, kwds, i + 1, hook)

\* the loop of set_setup_attributes, from the i-th setup attribute on; an
\* exception of a setter leaves the loop.  Yields the world and what is left
\* of kwds.
RECURSIVE apply_kwds(_, _, _, _)
apply_kwds(w, kwds, i, hook) ==
    IF i > Len(setup_attributes) \/ Failed(w)
    THEN [w |-> w, kwds |-> kwds]
    ELSE LET key == setup_attributes[i]
         IN  IF key \in DOMAIN kwds
             THEN apply_kwds(attribute_set(w, key, kwds[key], hook),
                             Drop(kwds, key), i + 1, hook)
             ELSE apply_kwds(w, kwds, i + 1, hook)

\* BaseModule.set_setup_attributes.  The raise statement formats its message
\* with kwds[0]; kwds is a dict keyed by strings, so evaluating the argument
\* of ValueError raises KeyError(0) and no ValueError is ever built.
set_setup_attributes(w, kwds, hook) ==
    LET old_callback_active == w.callback_active
        r  == apply_kwds([w EXCEPT !.callback_active = FALSE], kwds, 1, hook)
        w2 == [r.w EXCEPT !.callback_active = old_callback_active]
    IN  IF ~Failed(w2) /\ DOMAIN r.kwds /= {}
        THEN Raise(w2, "KeyError(0)")
        ELSE w2

\* variant: the whole config branch is handed to set_setup_attributes
load_setup_attributes_unfiltered(w, hook) ==
    set_setup_attributes(w, w.cfg, hook)

\* BaseModule.load_setup_attributes: the keys of the config branch that are
\* setup attributes are collected and handed to set_setup_attributes
load_setup_attributes(w, hook) ==
    LET dic == [key \in {k \in DOMAIN w.cfg : k \in AttrNames} |-> w.cfg[key]]
    IN  set_setup_attributes(w, dic, hook)

\* a call made from inside a call has taken w to w1
Returned(w, w1, call) ==
    [w1 EXCEPT !.inner = @ \cup {<<call, w.callback_active, w1.callback_active>>}]

\* a method of the module called from inside its setup routine (the routine
\* run by an inner setup() makes no further call)
routine_call(w, call) ==
    Returned(w,
             CASE call = "self.setup()" -> setup(w, EmptyDict, "pass")
               [] call = "self.set_setup_attributes(x=99)" ->
                      set_setup_attributes(w, Put(EmptyDict, "x", 99), "pass")
               [] call = "self.set_setup_attributes(z=5)" ->
                      set_setup_attributes(w, Put(EmptyDict, UnknownKey, 5), "pass"),
             call)

\* the module-specific setup routine (BaseModule._setup is `pass`; a derived
\* class talks to the device and may fail, or writes a callback attribute
\* of the module, or calls a method of the module; routines nested too
\* deeply end in a RecursionError)
_setup(w, hook) ==
    LET w1 == [w EXCEPT !.setups = @ + 1,
                        !.cbAtSetup = @ \cup {w.callback_active}]
    IN  IF hook = "raise" THEN Raise(w1, "SetupError")
        ELSE IF hook = "write"
             THEN IF w1.setups > MaxRecursion
                  THEN Raise(w1, "RecursionError")
                  ELSE attribute_set(w1, callback_attributes[1], 99, hook)
             ELSE IF hook \in RoutineCalls THEN routine_call(w1, hook)
             ELSE w1

\* variant: setup() leaves _callback_active as it finds it on entry
setup_unsuppressed(w, kwds, hook) ==
    LET w0 == [w EXCEPT !.setupCalls = @ + 1]
        w1 == set_setup_attributes(w0, kwds, hook)
        w2 == IF Failed(w1) THEN w1 ELSE _setup(w1, hook)
        w3 == [w2 EXCEPT !.callback_active = TRUE]
    IN  [w3 EXCEPT !.cbAfterSetup = @ \cup {w3.callback_active}]

\* variant: setup() without try/finally, the flag is set back on success only
setup_no_finally(w, kwds, hook) ==
    LET w0 == [w EXCEPT !.callback_active = FALSE, !.setupCalls = @ + 1]
        w1 == set_setup_attributes(w0, kwds, hook)
        w2 == IF Failed(w1) THEN w1 ELSE _setup(w1, hook)
        w3 == IF Failed(w2) THEN w2 ELSE [w2 EXCEPT !.callback_active = TRUE]
    IN  [w3 EXCEPT !.cbAfterSetup = @ \cup {w3.callback_active}]

\* the setup() that ModuleMetaClass.__init__ generates
setup(w, kwds, hook) ==
    LET w0 == [w EXCEPT !.callback_active = FALSE, !.setupCalls = @ + 1]
        w1 == set_setup_attributes(w0, kwds, hook)
        w2 == IF Failed(w1) THEN w1 ELSE _setup(w1, hook)
        w3 == [w2 EXCEPT !.callback_active = TRUE]
    IN  [w3 EXCEPT !.cbAfterSetup = @ \cup {w3.callback_active}]

\* BaseModule.c: the section of the instance called `name`, inside the
\* manager section of its type (_section_name + "s") of the parent's config
manager_section_name == "basemodules"
c_path(name) == <<manager_section_name, name>>

\* branch._parent
Parent(path) == SubSeq(path, 1, Len(path) - 1)

\* variant: the states section lies inside the section of the instance
c_states_path_own(name) == Append(c_path(name), "states")

\* BaseModule.c_states: self.c._parent.states
c_states_path(name) == Append(Parent(c_path(name)), "states")

\* BaseModule.c_states: the "states" section next to the instance's section
\* (created empty on first use; an empty section and a missing one cannot be
\* told apart through the module)
c_states(w) == w.states

\* BaseModule.save_state, with the default state_branch
save_state(w, name) ==
    [w EXCEPT !.states = Put(c_states(w), name, get_setup_attributes(w))]

\* variant: a missing state is loaded as an empty one
load_state_silent(w, name, hook) ==
    IF name \notin DOMAIN c_states(w)
    THEN setup(w, EmptyDict, hook)
    ELSE setup(w, c_states(w)[name], hook)

\* BaseModule.load_state, with the default state_branch
load_state(w, name, hook) ==
    IF name \notin DOMAIN c_states(w)
    THEN Raise(w, "KeyError(state)")
    ELSE setup(w, c_states(w)[name], hook)

\* ownership_changed(old, new): only HardwareModule defines the hook; on any
\* other module the lookup of the method raises AttributeError
ownership_changed(w, old, new) ==
    IF w.kind = "HardwareModule" THEN w ELSE Raise(w, "AttributeError")

\* variant: the owner is recorded after the hook and the re-setup succeeded
owner_set_late(w, val, hook) ==
    LET old == w.owner
        w1  == [w EXCEPT !.autosave_active = (val = None)]
        w2  == ownership_changed(w1, old, val)
        w3  == IF ~Failed(w2) /\ val = None THEN setup(w2, w2.cfg, hook) ELSE w2
    IN  IF Failed(w3) THEN w3
        ELSE [w3 EXCEPT !.owner = val, !.emits = @ + 1,
                        !.ownerAtEmit = @ \cup {val}]

\* variant: a failed re-setup gives the module back to its previous owner
owner_set_revert(w, val, hook) ==
    LET old == w.owner
        w1  == [w EXCEPT !.owner = val, !.autosave_active = (val = None)]
        w2  == ownership_changed(w1, old, val)
        w3  == IF ~Failed(w2) /\ val = None THEN setup(w2, w2.cfg, hook) ELSE w2
    IN  IF Failed(w3)
        THEN [w3 EXCEPT !.owner = old, !.autosave_active = (old = None)]
        ELSE [w3 EXCEPT !.emits = @ + 1, !.ownerAtEmit = @ \cup {w3.owner}]

\* the setter of BaseModule.owner
owner_set(w, val, hook) ==
    LET old == w.owner
        w1  == [w EXCEPT !.owner = val, !.autosave_active = (val = None)]
        w2  == ownership_changed(w1, old, val)
        w3  == IF ~Failed(w2) /\ val = None THEN setup(w2, w2.cfg, hook) ELSE w2
    IN  IF Failed(w3) THEN w3
        ELSE [w3 EXCEPT !.emits = @ + 1, !.ownerAtEmit = @ \cup {w3.owner}]

\* BaseModule.free
free(w, hook) == owner_set(w, None, hook)

\* BaseModule.__enter__: the value bound by `with ... as mod`
SelfId == "self"
enter(w) == SelfId

\* BaseModule.__exit__(type, val, traceback): ignores its arguments and
\* returns None, so an exception of the body is re-raised after it
exit(w, exc, hook) == owner_set(w, None, hook)

\* a method of the module called from inside the constructor of its widget
widget_call(w, call) ==
    Returned(w,
             CASE call = "module.setup()" -> setup(w, EmptyDict, "pass")
               [] call = "module.load_state('s')" -> load_state(w, "s", "pass")
               [] call = "module.free()" -> free(w, "pass"),
             call)

\* self._widget_class(self.name, self): the widget's constructor writes the
\* attributes in `writes` (a sequence of <<key, value>>; a key that is a call
\* stands for that call on the module) and then fails or not
RECURSIVE widget_init(_, _, _)
widget_init(w, writes, fail) ==
    IF Failed(w) THEN w
    ELSE IF writes = <<>>
         THEN IF fail THEN Raise(w, "WidgetError") ELSE w
         ELSE IF Head(writes)[1] \in WidgetCalls
              THEN widget_init(widget_call(w, Head(writes)[1]), Tail(writes), fail)
              ELSE widget_init(attribute_set(w, Head(writes)[1], Head(writes)[2], "pass"),
                               Tail(writes), fail)

\* variant: only the callbacks are switched off while the widget is built
create_widget_autosaving(w, writes, fail) ==
    LET w1 == [w EXCEPT !.callback_active = FALSE]
        w2 == widget_init(w1, writes, fail)
    IN  [w2 EXCEPT !.callback_active = TRUE, !.autosave_active = TRUE]

\* BaseModule.create_widget
create_widget(w, writes, fail) ==
    LET w1 == [w EXCEPT !.callback_active = FALSE, !.autosave_active = FALSE]
        w2 == widget_init(w1, writes, fail)
    IN  [w2 EXCEPT !.callback_active = TRUE, !.autosave_active = TRUE]

\* the module-specific _init_module (BaseModule._init_module is `pass`; a
\* derived class writes the attributes in `writes`, a sequence of
\* <<key, value>>)
RECURSIVE _init_module(_, _, _)
_init_module(w, writes, hook) ==
    IF Failed(w) \/ writes = <<>> THEN w
    ELSE _init_module(attribute_set(w, Head(writes)[1], Head(writes)[2], hook),
                      Tail(writes), hook)

\* variant: the constructor leaves _autosave_active as the class defines it
__init___autosaving(w, writes, hook) == _init_module(w, writes, hook)

\* BaseModule.__init__, from `self._autosave_active = False` on; an exception
\* of _init_module leaves the constructor at once
__init__(w, writes, hook) ==
    LET w1 == [w EXCEPT !.autosave_active = FALSE]
        w2 == _init_module(w1, writes, hook)
    IN  IF Failed(w2) THEN w2 ELSE [w2 EXCEPT !.autosave_active = TRUE]

\* ------------------------------------------------------ the metaclass
\* attribute descriptor objects (instances of BaseAttribute), what else a
\* class body can hold, and the field names of a class body
Descriptors  == {"d1", "d2"}
NotAttribute == "method"
FieldNames   == {"a", "b"}
Unnamed      == ""            \* a descriptor no class body has held yet

\* variant: a descriptor keeps the first name it is given, and a second
\* binding is an error
RECURSIVE bind_once(_, _)
bind_once(r, items) ==
    IF items = <<>> THEN r
    ELSE LET name == Head(items)[1]
             attr == Head(items)[2]
         IN  IF attr \in Descriptors
             THEN IF r.names[attr] = Unnamed
                  THEN bind_once([r EXCEPT !.names[attr] = name], Tail(items))
                  ELSE [r EXCEPT !.err = "TypeError"]
             ELSE bind_once(r, Tail(items))

\* the loop of ModuleMetaClass.__new__ over classDict.items()
RECURSIVE bind(_, _)
bind(r, items) ==
    IF items = <<>> THEN r
    ELSE LET name == Head(items)[1]
             attr == Head(items)[2]
         IN  IF attr \in Descriptors
             THEN bind([r EXCEPT !.names[attr] = name], Tail(items))
             ELSE bind(r, Tail(items))

\* ModuleMetaClass.__new__(cls, classname, bases, classDict); items is
\* classDict.items() in the order of the iteration
ModuleMetaClass__new__(nms, items) == bind([names |-> nms, err |-> NoError], items)

\* ------------------------------------------------- the register codec
\* Python integers are unbounded and the 32-bit codec needs 2^32, so an
\* integer n is held as two limbs, n = hi * 2^16 + lo with 0 <= lo < 2^16
\* (hi is negative for a negative n, as in two's complement).
Limb == 2^16
Norm(hi, lo) == [hi |-> hi + (lo \div Limb), lo |-> lo % Limb]
FromInt(n)   == Norm(0, n)
Zero         == FromInt(0)
\* 2 ** k
Pow2(k) == IF k < 16 THEN [hi |-> 0, lo |-> 2^k] ELSE [hi |-> 2^(k - 16), lo |-> 0]
\* a + b, a - b, a < 0, a <= b
Plus(a, b)   == Norm(a.hi + b.hi, a.lo + b.lo)
Minus(a, b)  == Norm(a.hi - b.hi, a.lo - b.lo)
Negative(a)  == a.hi < 0
Leq(a, b)    == a.hi < b.hi \/ (a.hi = b.hi /\ a.lo <= b.lo)
\* a & (2 ** k - 1): the low k bits of the two's complement of a
AndMask(a, k) ==
    IF k <= 16 THEN [hi |-> 0, lo |-> a.lo % 2^k]
    ELSE [hi |-> a.hi % 2^(k - 16), lo |-> a.lo]
\* a >> k: floor(a / 2 ** k)
ShiftRight(a, k) ==
    IF k < 16
    THEN [hi |-> a.hi \div 2^k,
          lo |-> (a.hi % 2^k) * 2^(16 - k) + (a.lo \div 2^k)]
    ELSE FromInt(a.hi \div 2^(k - 16))
\* np.uint32(a): the low 32 bits
uint32(a) == [hi |-> a.hi % Limb, lo |-> a.lo]

\* bit lengths of the registers
BitLengths == {8, 14, 16, 32}

\* variant: the word is masked and never taken as negative
_to_pyint_unsigned(v, bitlength) == AndMask(v, bitlength)

\* HardwareModule._to_pyint: register word -> signed integer.  int() of an
\* integer is that integer; arithmetic of the legacy numpy scalars on a
\* uint32 word and a Python int is carried out in int64 and is exact here.
_to_pyint(v, bitlength) ==
    LET v1 == AndMask(v, bitlength)
    IN  IF ShiftRight(v1, bitlength - 1) /= Zero
        THEN Minus(v1, Pow2(bitlength))
        ELSE v1

\* variant: the value is not masked to bitlength bits
_from_pyint_unmasked(v, bitlength) ==
    uint32(IF Negative(v) THEN Plus(v, Pow2(bitlength)) ELSE v)

\* HardwareModule._from_pyint: signed integer -> register word
_from_pyint(v, bitlength) ==
    LET v1 == IF Negative(v) THEN Plus(v, Pow2(bitlength)) ELSE v
        v2 == AndMask(v1, bitlength)
    IN  uint32(v2)

\* ------------------------------------------------------ the state machine
\* what the config file can hold for the instance when it is constructed
ConfigBranches == {c \in Dicts(AllKeys, Values) :
                       UnknownKey \in DOMAIN c => c[UnknownKey] = 5}

\* the fields of the instance and the config branches, as a call finds them
Fields ==
    [attrs |-> attrs, cfg |-> cfg, states |-> states,
     callback_active |-> callback_active, autosave_active |-> autosave_active,
     owner |-> owner]

Idle == "idle"

NoCall ==
    [op |-> Idle, kwds |-> EmptyDict, key |-> "", val |-> 0, name |-> "",
     hook |-> "pass", ret |-> "", pre |-> <<>>,
     err |-> NoError, hooks |-> 0, setupCalls |-> 0, setups |-> 0,
     cbAtWrite |-> {}, asAtWrite |-> {}, cbAtSetup |-> {}, cbAfterSetup |-> {},
     emits |-> 0, ownerAtEmit |-> {}, written |-> <<>>, inner |-> {}]

\* two instances of the type, and the sections of the config file in which
\* states can be kept for them: next to or inside the instances' sections
Instances == {"m1", "m2"}
Paths ==
    {c_path(n) : n \in Instances}
        \cup {Append(Parent(c_path(n)), "states") : n \in Instances}
        \cup {Append(c_path(n), "states") : n \in Instances}

NoSiblingCall == [op |-> Idle, inst |-> "", name |-> "", err |-> NoError, pre |-> <<>>]

\* no call has been made on the two instances
SiblingsAtRest ==
    /\ insts = [n \in Instances |-> [key \in AttrNames |-> 5]]
    /\ file = [p \in Paths |-> EmptyDict]
    /\ slast = NoSiblingCall

\* no module type has been defined
NoDefinition == [op |-> Idle, items |-> <<>>, pre |-> <<>>, err |-> NoError]
TypesAtRest ==
    /\ names = [d \in Descriptors |-> Unnamed]
    /\ types = <<>>
    /\ tlast = NoDefinition

\* the threads of the host, none of them inside a call on the module
Threads == {"t1", "t2"}
ThreadsAtRest == thr = [t \in Threads |-> <<>>]

\* no conversion is in progress
NoCodec == [pc |-> "none", bitlength |-> 14, v |-> Zero, raw |-> Zero, dec |-> Zero]

\* BaseModule.__init__ has run: autosave is active again, the class-level
\* defaults of _callback_active and _owner are untouched
Init ==
    /\ kind \in Kinds
    /\ attrs \in Snapshots
    /\ cfg \in ConfigBranches
    /\ states = EmptyDict
    /\ callback_active = TRUE
    /\ autosave_active = TRUE
    /\ owner = None
    /\ saved = EmptyDict
    /\ last = NoCall
    /\ codec = NoCodec
    /\ SiblingsAtRest
    /\ TypesAtRest
    /\ ThreadsAtRest

\* A call is made when the caller is done with the previous one; when it
\* returns or raises, the instance takes the fields of w and the call is
\* recorded with the state it started from.
Outcome(w, call) ==
    /\ attrs' = w.attrs
    /\ cfg' = w.cfg
    /\ states' = w.states
    /\ callback_active' = w.callback_active
    /\ autosave_active' = w.autosave_active
    /\ owner' = w.owner
    /\ last' = [call EXCEPT !.pre = Fields,
                            !.err = w.err, !.hooks = w.hooks,
                            !.setupCalls = w.setupCalls, !.setups = w.setups,
                            !.cbAtWrite = w.cbAtWrite, !.asAtWrite = w.asAtWrite,
                            !.cbAtSetup = w.cbAtSetup,
                            !.cbAfterSetup = w.cbAfterSetup, !.emits = w.emits,
                            !.ownerAtEmit = w.ownerAtEmit, !.written = w.written,
                            !.inner = w.inner]
    /\ UNCHANGED <<kind, codec, siblingVars, metaVars, thr>>

Commit(w, call) ==
    /\ last.op = Idle
    /\ Outcome(w, call)

\* the caller takes the result or the exception of the call
Return ==
    /\ last.op /= Idle
    /\ last' = NoCall
    /\ UNCHANGED <<kind, attrs, cfg, states, callback_active, autosave_active,
                   owner, saved, codec, siblingVars, metaVars, thr>>

\* kwds that set_setup_attributes applies without raising; only then does
\* setup() reach the setup routine and its outcome matter
ReachesSetup(kwds) ==
    /\ DOMAIN kwds \subseteq AttrNames
    /\ \A key \in DOMAIN kwds : kwds[key] \in Values

\* module.setup(**kwds)
Setup ==
    \E kwds \in KwdsSet, hook \in Hooks :
        /\ hook = "raise" => ReachesSetup(kwds)
        /\ Commit(setup(World, kwds, hook),
                  [NoCall EXCEPT !.op = "setup", !.kwds = kwds, !.hook = hook])
        /\ UNCHANGED saved

\* module.set_setup_attributes(**kwds)
SetSetupAttributes ==
    \E kwds \in KwdsSet :
        /\ Commit(set_setup_attributes(World, kwds, "pass"),
                  [NoCall EXCEPT !.op = "set_setup_attributes", !.kwds = kwds])
        /\ UNCHANGED saved

\* module.load_setup_attributes()
LoadSetupAttributes ==
    \E hook \in Hooks :
        /\ Commit(load_setup_attributes(World, hook),
                  [NoCall EXCEPT !.op = "load_setup_attributes", !.hook = hook])
        /\ UNCHANGED saved

\* module.<key> = val
WriteAttribute ==
    \E key \in AttrNames, val \in InputValues, hook \in Hooks :
        /\ Commit(attribute_set(World, key, val, hook),
                  [NoCall EXCEPT !.op = "setattr", !.key = key, !.val = val,
                                 !.hook = hook])
        /\ UNCHANGED saved

\* module.save_state(name)
SaveState ==
    \E name \in StateNames :
        /\ Commit(save_state(World, name),
                  [NoCall EXCEPT !.op = "save_state", !.name = name])
        /\ saved' = Put(saved, name, attrs)

\* module.load_state(name)
LoadState ==
    \E name \in StateNames, hook \in Hooks :
        /\ Commit(load_state(World, name, hook),
                  [NoCall EXCEPT !.op = "load_state", !.name = name, !.hook = hook])
        /\ UNCHANGED saved

\* module.owner = requester
Acquire ==
    \E requester \in Owners :
        /\ Commit(owner_set(World, requester, "pass"),
                  [NoCall EXCEPT !.op = "acquire", !.val = requester])
        /\ UNCHANGED saved

\* module.free()
Free ==
    \E hook \in Hooks :
        /\ Commit(free(World, hook), [NoCall EXCEPT !.op = "free", !.hook = hook])
        /\ UNCHANGED saved

\* `with module as mod:` is entered
Enter ==
    /\ Commit(World, [NoCall EXCEPT !.op = "__enter__", !.ret = enter(World)])
    /\ UNCHANGED saved

\* the with-block is left, normally or by an exception of its body
Exit ==
    \E exc \in {"None", "Exception"}, hook \in Hooks :
        /\ Commit(exit(World, exc, hook),
                  [NoCall EXCEPT !.op = "__exit__", !.name = exc, !.hook = hook])
        /\ UNCHANGED saved

\* module.create_widget()
WidgetWrites ==
    UNION {[1..n -> AttrNames \X Values] : n \in 0..MaxWidgetWrites}

CreateWidget ==
    \E writes \in WidgetWrites, fail \in BOOLEAN :
        /\ Commit(create_widget(World, writes, fail),
                  [NoCall EXCEPT !.op = "create_widget", !.val = Len(writes),
                                 !.ret = IF fail THEN "fail" ELSE "ok"])
        /\ UNCHANGED saved

Next ==
    \/ Setup
    \/ SetSetupAttributes
    \/ LoadSetupAttributes
    \/ WriteAttribute
    \/ SaveState
    \/ LoadState
    \/ Acquire
    \/ Free
    \/ Enter
    \/ Exit
    \/ CreateWidget
    \/ Return

Spec == Init /\ [][Next]_vars

\* ------------------------- writes on a module whose _setup() writes
\* The attributes of a module are written from outside; its setup routine
\* passes, raises or writes a callback attribute itself.
WriteWithRoutine ==
    \E key \in AttrNames, val \in InputValues, hook \in RoutineHooks :
        /\ Commit(attribute_set(World, key, val, hook),
                  [NoCall EXCEPT !.op = "setattr", !.key = key, !.val = val,
                                 !.hook = hook])
        /\ UNCHANGED saved

RoutineNext ==
    \/ WriteWithRoutine
    \/ Return

RoutineSpec == Init /\ [][RoutineNext]_vars

\* ------------------------------- calls made from inside a call
\* setup() is called on a module whose setup routine calls a method of the
\* module, and create_widget() on one whose widget does so when it is built.
SetupNesting ==
    \E call \in RoutineCalls :
        /\ Commit(setup(World, EmptyDict, call),
                  [NoCall EXCEPT !.op = "setup", !.hook = call])
        /\ UNCHANGED saved

CreateWidgetNesting ==
    \E call \in WidgetCalls :
        /\ Commit(create_widget(World, <<<<call, 0>>>>, FALSE),
                  [NoCall EXCEPT !.op = "create_widget", !.val = 1,
                                 !.hook = call, !.ret = "ok"])
        /\ UNCHANGED saved

NestNext ==
    \/ SetupNesting
    \/ CreateWidgetNesting
    \/ SaveState
    \/ Acquire
    \/ Return

NestSpec == Init /\ [][NestNext]_vars

\* ------------------------------------- two threads on one module
\* Two threads call setup(), write an attribute or release the module, with
\* no lock: a step is one statement of the code, run by one thread, and the
\* threads take their steps in any order.  A frame holds the statement to
\* run next (function:line), the overrides not yet applied (in declaration
\* order), old_callback_active, the arguments of a write, and whether the
\* frame's thread alone has taken steps since the frame's setup() began.
NoFrame == [pc |-> "", kwds |-> <<>>, old |-> FALSE, key |-> "", val |-> 0,
            alone |-> FALSE]
Frame(pc, kwds) == [NoFrame EXCEPT !.pc = pc, !.kwds = kwds]

\* the overrides of setup(**kwds), as the loop of set_setup_attributes
\* meets them
RECURSIVE Items(_, _)
Items(kwds, i) ==
    IF i > Len(setup_attributes) THEN <<>>
    ELSE IF setup_attributes[i] \in DOMAIN kwds
         THEN <<<<setup_attributes[i], kwds[setup_attributes[i]]>>>>
                  \o Items(kwds, i + 1)
         ELSE Items(kwds, i + 1)

ThreadKwds == {EmptyDict, Put(EmptyDict, "x", 99)}

ThreadInit ==
    /\ kind = "HardwareModule"
    /\ attrs = [key \in AttrNames |-> 5]
    /\ cfg \in {EmptyDict, Put(EmptyDict, "x", 5)}
    /\ states = EmptyDict
    /\ callback_active = TRUE
    /\ autosave_active = TRUE
    /\ owner \in {None} \cup Owners
    /\ saved = EmptyDict
    /\ last = NoCall
    /\ codec = NoCodec
    /\ SiblingsAtRest
    /\ TypesAtRest
    /\ ThreadsAtRest

Top(t)  == thr[t][Len(thr[t])]
At(t, pc) == thr[t] /= <<>> /\ Top(t).pc = pc
\* a step of thread t leaves it with the stack `stack`; the frames of the
\* other threads are no longer alone
Interfered(stack) == [i \in DOMAIN stack |-> [stack[i] EXCEPT !.alone = FALSE]]
Stacks(t, stack) ==
    [u \in Threads |-> IF u = t THEN stack ELSE Interfered(thr[u])]
\* the stack of t with its top frame replaced, removed, or called from
Goto(t, f)    == [thr[t] EXCEPT ![Len(thr[t])] = f]
Popped(t)     == SubSeq(thr[t], 1, Len(thr[t]) - 1)
Pushed(t, f, g) == Append(Goto(t, f), g)

untouched == <<kind, states, saved, last, codec, insts, file, slast, names,
               types, tlast>>

\* variant: setup() does not touch the flag on entry
setup_87_skipped == callback_active

\* `self._callback_active = False`, the first statement of setup()
setup_87 == FALSE

\* a thread calls module.setup(**kwds), module.<key> = val or module.free()
ThreadCall ==
    \E t \in Threads :
        /\ thr[t] = <<>>
        /\ \E f \in {Frame("setup:87", Items(kwds, 1)) : kwds \in ThreadKwds}
                   \cup {[Frame("setattr", <<>>) EXCEPT !.key = "x", !.val = v] :
                            v \in Values}
                   \cup {Frame("owner:374", <<>>)} :
               thr' = Stacks(t, <<f>>)
        /\ UNCHANGED <<attrs, cfg, callback_active, autosave_active, owner, untouched>>

\* setup: self._callback_active = False
SetupEnter ==
    \E t \in Threads :
        /\ At(t, "setup:87")
        /\ callback_active' = setup_87
        /\ thr' = Stacks(t, Goto(t, [Top(t) EXCEPT !.pc = "ssa:222", !.alone = TRUE]))
        /\ UNCHANGED <<attrs, cfg, autosave_active, owner, untouched>>

\* set_setup_attributes: old_callback_active = self._callback_active
SsaSave ==
    \E t \in Threads :
        /\ At(t, "ssa:222")
        /\ thr' = Stacks(t, Goto(t, [Top(t) EXCEPT !.pc = "ssa:223",
                                                   !.old = callback_active]))
        /\ UNCHANGED <<attrs, cfg, callback_active, autosave_active, owner, untouched>>

\* set_setup_attributes: self._callback_active = False
SsaOff ==
    \E t \in Threads :
        /\ At(t, "ssa:223")
        /\ callback_active' = FALSE
        /\ thr' = Stacks(t, Goto(t, [Top(t) EXCEPT !.pc = "ssa:225"]))
        /\ UNCHANGED <<attrs, cfg, autosave_active, owner, untouched>>

\* set_setup_attributes: the next setattr(self, key, value) of the loop; the
\* setter stores, saves when autosave is on, and calls _callback(), that
\* is setup(), when it finds the callbacks on
SsaLoop ==
    \E t \in Threads :
        /\ At(t, "ssa:225")
        /\ Top(t).kwds /= <<>>
        /\ LET key == Head(Top(t).kwds)[1]
               val == Head(Top(t).kwds)[2]
               f   == [Top(t) EXCEPT !.kwds = Tail(@)]
           IN  /\ attrs' = [attrs EXCEPT ![key] = val]
               /\ cfg' = IF autosave_active THEN Put(cfg, key, val) ELSE cfg
               /\ thr' = Stacks(t, IF callback_active /\ key \in CallbackSet
                                   THEN Pushed(t, f, Frame("setup:87", <<>>))
                                   ELSE Goto(t, f))
        /\ UNCHANGED <<callback_active, autosave_active, owner, untouched>>

\* set_setup_attributes: finally: self._callback_active = old_callback_active
SsaRestore ==
    \E t \in Threads :
        /\ At(t, "ssa:225")
        /\ Top(t).kwds = <<>>
        /\ callback_active' = Top(t).old
        /\ thr' = Stacks(t, Goto(t, [Top(t) EXCEPT !.pc = "setup:92"]))
        /\ UNCHANGED <<attrs, cfg, autosave_active, owner, untouched>>

\* setup: self._setup()
SetupRoutine ==
    \E t \in Threads :
        /\ At(t, "setup:92")
        /\ thr' = Stacks(t, Goto(t, [Top(t) EXCEPT !.pc = "setup:95"]))
        /\ UNCHANGED <<attrs, cfg, callback_active, autosave_active, owner, untouched>>

\* setup: finally: self._callback_active = True, and setup() returns
SetupFinally ==
    \E t \in Threads :
        /\ At(t, "setup:95")
        /\ callback_active' = TRUE
        /\ thr' = Stacks(t, Popped(t))
        /\ UNCHANGED <<attrs, cfg, autosave_active, owner, untouched>>

\* module.<key> = val: the setter stores, saves when autosave is on, and
\* ends in _callback(), that is setup(), when it finds the callbacks on
ThreadWrite ==
    \E t \in Threads :
        /\ At(t, "setattr")
        /\ attrs' = [attrs EXCEPT ![Top(t).key] = Top(t).val]
        /\ cfg' = IF autosave_active THEN Put(cfg, Top(t).key, Top(t).val) ELSE cfg
        /\ thr' = Stacks(t, IF callback_active /\ Top(t).key \in CallbackSet
                            THEN Goto(t, Frame("setup:87", <<>>))
                            ELSE Popped(t))
        /\ UNCHANGED <<callback_active, autosave_active, owner, untouched>>

\* owner setter: self._owner = val, for val = None
OwnerAssign ==
    \E t \in Threads :
        /\ At(t, "owner:374")
        /\ owner' = None
        /\ thr' = Stacks(t, Goto(t, [Top(t) EXCEPT !.pc = "owner:375"]))
        /\ UNCHANGED <<attrs, cfg, callback_active, autosave_active, untouched>>

\* owner setter: self._autosave_active = True; ownership_changed(old, val)
\* of a hardware module is `pass`; then self.setup(**self.c._dict) is called
OwnerReSetup ==
    \E t \in Threads :
        /\ At(t, "owner:375")
        /\ autosave_active' = TRUE
        /\ thr' = Stacks(t, Pushed(t, [Top(t) EXCEPT !.pc = "owner:389"],
                                   Frame("setup:87", Items(cfg, 1))))
        /\ UNCHANGED <<attrs, cfg, callback_active, owner, untouched>>

\* owner setter: self._signal_launcher.change_ownership.emit(), and return
OwnerEmit ==
    \E t \in Threads :
        /\ At(t, "owner:389")
        /\ thr' = Stacks(t, Popped(t))
        /\ UNCHANGED <<attrs, cfg, callback_active, autosave_active, owner, untouched>>

ThreadNext ==
    \/ ThreadCall
    \/ SetupEnter
    \/ SsaSave
    \/ SsaOff
    \/ SsaLoop
    \/ SsaRestore
    \/ SetupRoutine
    \/ SetupFinally
    \/ ThreadWrite
    \/ OwnerAssign
    \/ OwnerReSetup
    \/ OwnerEmit

ThreadSpec == ThreadInit /\ [][ThreadNext]_vars

\* ---------------------------------------- construction as a machine
\* Before BaseModule.__init__ the instance has no field of its own: the
\* flags and the owner are the defaults of the class; the attribute values
\* are those of the device and the config branch is what the file holds.
Unconstructed == "unconstructed"

ClassInit ==
    /\ kind \in Kinds
    /\ attrs \in Snapshots
    /\ cfg \in ConfigBranches
    /\ states = EmptyDict
    /\ callback_active = TRUE
    /\ autosave_active = TRUE
    /\ owner = None
    /\ saved = EmptyDict
    /\ last = [NoCall EXCEPT !.op = Unconstructed]
    /\ codec = NoCodec
    /\ SiblingsAtRest
    /\ TypesAtRest
    /\ ThreadsAtRest

InitWrites ==
    UNION {[1..n -> AttrNames \X Values] : n \in 0..MaxInitWrites}

\* module = cls(parent, name)
Construct ==
    \E writes \in InitWrites, hook \in Hooks :
        /\ last.op = Unconstructed
        /\ Outcome(__init__(World, writes, hook),
                   [NoCall EXCEPT !.op = "__init__", !.val = Len(writes),
                                  !.hook = hook])
        /\ UNCHANGED saved

\* the caller takes the new module, or the exception of the constructor
Constructed ==
    /\ last.op = "__init__"
    /\ Return

ConstructNext ==
    \/ Construct
    \/ Constructed

ConstructSpec == ClassInit /\ [][ConstructNext]_vars

\* ------------------------------------- the register codec as a machine
\* A hardware module at rest converts one value: _from_pyint encodes it and
\* _to_pyint decodes the word, or _to_pyint decodes it as a word read from
\* the bus.
ModuleAtRest ==
    /\ kind = "HardwareModule"
    /\ attrs = [key \in AttrNames |-> 5]
    /\ cfg = EmptyDict
    /\ states = EmptyDict
    /\ callback_active = TRUE
    /\ autosave_active = TRUE
    /\ owner = None
    /\ saved = EmptyDict
    /\ last = NoCall

\* the integers handed to the codec for a bit length: those within Window
\* of a multiple of 2^(bitlength-1), up to MaxWraps times 2^bitlength on
\* either side of 0 (for 8 bits: every integer of the interval)
CodecInputs(bitlength) ==
    {Plus(Norm(k * Pow2(bitlength - 1).hi, k * Pow2(bitlength - 1).lo), FromInt(d)) :
        k \in (-2 * MaxWraps)..(2 * MaxWraps), d \in (-Window)..Window}

CodecInit ==
    /\ ModuleAtRest
    /\ SiblingsAtRest
    /\ TypesAtRest
    /\ ThreadsAtRest
    /\ \E bitlength \in BitLengths :
         \E v \in CodecInputs(bitlength) :
            codec = [NoCodec EXCEPT !.pc = "in", !.bitlength = bitlength, !.v = v]

\* raw = self._from_pyint(v, bitlength)
Encode ==
    /\ codec.pc = "in"
    /\ codec' = [codec EXCEPT !.pc = "raw",
                              !.raw = _from_pyint(codec.v, codec.bitlength)]
    /\ UNCHANGED <<moduleVars, siblingVars, metaVars, thr>>

\* dec = self._to_pyint(raw, bitlength)
Decode ==
    /\ codec.pc = "raw"
    /\ codec' = [codec EXCEPT !.pc = "dec",
                              !.dec = _to_pyint(codec.raw, codec.bitlength)]
    /\ UNCHANGED <<moduleVars, siblingVars, metaVars, thr>>

\* dec = self._to_pyint(self._read(addr), bitlength), the bus delivering v
DecodeWord ==
    /\ codec.pc = "in"
    /\ codec' = [codec EXCEPT !.pc = "word",
                              !.dec = _to_pyint(codec.v, codec.bitlength)]
    /\ UNCHANGED <<moduleVars, siblingVars, metaVars, thr>>

CodecNext ==
    \/ Encode
    \/ Decode
    \/ DecodeWord

CodecSpec == CodecInit /\ [][CodecNext]_vars

\* ------------------------------ two instances of one type as a machine
\* Two unowned instances of one module type, constructed under the same
\* parent, are written, saved and loaded in any order.
SiblingInit ==
    /\ ModuleAtRest
    /\ codec = NoCodec
    /\ TypesAtRest
    /\ ThreadsAtRest
    /\ insts \in [Instances -> Snapshots]
    /\ file = [p \in Paths |-> EmptyDict]
    /\ slast = NoSiblingCall

\* the world of the instance called n: its attributes, self.c and
\* self.c_states
SiblingWorld(n) ==
    [World EXCEPT !.attrs = insts[n], !.cfg = file[c_path(n)],
                  !.states = file[c_states_path(n)]]

SiblingCommit(n, w, call) ==
    /\ insts' = [insts EXCEPT ![n] = w.attrs]
    /\ file' = [file EXCEPT ![c_path(n)] = w.cfg, ![c_states_path(n)] = w.states]
    /\ slast' = [call EXCEPT !.inst = n, !.err = w.err,
                             !.pre = [insts |-> insts, file |-> file]]
    /\ UNCHANGED <<moduleVars, codec, metaVars, thr>>

\* instance n: module.<key> = val
SiblingWrite ==
    \E n \in Instances, key \in AttrNames, val \in Values :
        SiblingCommit(n, attribute_set(SiblingWorld(n), key, val, "pass"),
                      [NoSiblingCall EXCEPT !.op = "setattr"])

\* instance n: module.save_state(name)
SiblingSaveState ==
    \E n \in Instances, name \in StateNames :
        SiblingCommit(n, save_state(SiblingWorld(n), name),
                      [NoSiblingCall EXCEPT !.op = "save_state", !.name = name])

\* instance n: module.load_state(name)
SiblingLoadState ==
    \E n \in Instances, name \in StateNames :
        SiblingCommit(n, load_state(SiblingWorld(n), name, "pass"),
                      [NoSiblingCall EXCEPT !.op = "load_state", !.name = name])

SiblingNext ==
    \/ SiblingWrite
    \/ SiblingSaveState
    \/ SiblingLoadState

SiblingSpec == SiblingInit /\ [][SiblingNext]_vars

\* ------------------------------------------ type definition as a machine
\* Module types are defined one after the other; their class bodies draw
\* on the same descriptor objects.  A class body is the sequence of the
\* items of classDict, field names distinct, in the order of the iteration.
ClassDicts ==
    {items \in UNION {[1..n -> FieldNames \X (Descriptors \cup {NotAttribute})] :
                        n \in 0..Cardinality(FieldNames)} :
        \A i, j \in DOMAIN items : i /= j => items[i][1] /= items[j][1]}

MetaInit ==
    /\ ModuleAtRest
    /\ codec = NoCodec
    /\ SiblingsAtRest
    /\ TypesAtRest
    /\ ThreadsAtRest

\* a class statement with metaclass ModuleMetaClass is executed
DefineType ==
    \E items \in ClassDicts :
        LET r == ModuleMetaClass__new__(names, items)
        IN  /\ Len(types) < MaxTypes
            /\ names' = r.names
            /\ types' = IF r.err = NoError THEN Append(types, items) ELSE types
            /\ tlast' = [op |-> "class", items |-> items, pre |-> names,
                         err |-> r.err]
            /\ UNCHANGED <<moduleVars, codec, siblingVars, thr>>

MetaNext == DefineType

MetaSpec == MetaInit /\ [][MetaNext]_vars

\* ------------------------------------------------------------ the claims
\* All formulas below are about the state in which a call has just ended:
\* `last` holds the call, `last.pre` the fields before it, the other
\* variables the fields after it.
Releases   == {"free", "__exit__"}
Recognized == DOMAIN last.kwds \cap AttrNames

\* C1, as stated: during setup(**kwds) callbacks are suppressed while the
\* overrides are applied and while the setup routine runs, no attribute
\* write calls the callback hook, setup() is not re-entered, and the setup
\* routine runs exactly once in every setup() call.
C1_AsStated ==
    last.op = "setup" =>
        /\ last.hooks = 0
        /\ last.setupCalls = 1
        /\ last.cbAtWrite \subseteq {FALSE}
        /\ last.cbAtSetup \subseteq {FALSE}
        /\ last.setups = 1

\* C1, amended: as above, but the setup routine runs exactly once when the
\* overrides were applied without an exception, and not at all when applying
\* them raised (an unknown key or a failing setter).
C1_NoRecursiveSetup ==
    last.op = "setup" =>
        /\ last.hooks = 0
        /\ last.setupCalls = 1
        /\ last.cbAtWrite \subseteq {FALSE}
        /\ last.cbAtSetup \subseteq {FALSE}
        /\ last.setups = IF ReachesSetup(last.kwds) THEN 1 ELSE 0

\* a setup() call given every callback attribute has written all of them
\* with callbacks suppressed and has run the setup routine once
C1_Witness ==
    /\ last.op = "setup"
    /\ CallbackSet \subseteq DOMAIN last.kwds
    /\ attrs /= last.pre.attrs
    /\ last.cbAtWrite = {FALSE}
    /\ last.cbAtSetup = {FALSE}
    /\ last.setups = 1

\* C2: when setup() ends, _callback_active is True on every path (normal
\* return, an exception while the overrides are applied, an exception of the
\* setup routine), also for a setup() made inside another call; and the
\* exception reaches the caller.
C2_CallbackRestored ==
    /\ last.cbAfterSetup \subseteq {TRUE}
    /\ last.op = "setup" =>
        /\ callback_active = TRUE
        /\ last.err = NoError <=> (ReachesSetup(last.kwds) /\ last.hook = "pass")
        /\ (UnknownKey \in DOMAIN last.kwds \/ \E key \in Recognized : last.kwds[key] \in Rejected)
              => last.err \in {"KeyError(0)", "SetterError"}
        /\ (ReachesSetup(last.kwds) /\ last.hook = "raise") => last.err = "SetupError"

\* the setup routine raised after the overrides were applied
C2_Witness ==
    /\ last.op = "setup"
    /\ last.err = "SetupError"
    /\ Recognized /= {}
    /\ callback_active = TRUE

\* C3: on a hardware module, what a temporary owner does is never persisted
\* (the config branch stays as it was while the module is owned), and a
\* release leaves every persisted setup attribute at its persisted value:
\* acquire; x = 99; release ends with x = 5 = persisted x, whatever else the
\* owner did in between.
C3_OwnershipDefaultRestore ==
    (kind = "HardwareModule" /\ last.op /= Idle /\ last.pre.owner /= None) =>
        /\ last.op \notin Releases => cfg = last.pre.cfg
        /\ last.op \in Releases =>
              \A key \in AttrNames \cap DOMAIN last.pre.cfg :
                  attrs[key] = last.pre.cfg[key] /\ cfg[key] = last.pre.cfg[key]

\* C3, what holds of the code: the same, for calls that find autosave off as
\* the owner setter left it.
C3_WhileAutosaveOff ==
    (/\ kind = "HardwareModule" /\ last.op /= Idle
     /\ last.pre.owner /= None /\ last.pre.autosave_active = FALSE) =>
        /\ last.op \notin Releases => cfg = last.pre.cfg
        /\ last.op \in Releases =>
              \A key \in AttrNames \cap DOMAIN last.pre.cfg :
                  attrs[key] = last.pre.cfg[key] /\ cfg[key] = last.pre.cfg[key]

\* C4: between calls, the module is owned exactly when autosave is off.
C4_AutosaveFollowsOwner ==
    /\ owner /= None => autosave_active = FALSE
    /\ owner = None => autosave_active = TRUE

\* C5: load_state(s) leaves every setup attribute at the value it had when
\* this module last did save_state(s), whatever changed the attributes in
\* between.
C5_RoundTrip ==
    (last.op = "load_state" /\ last.name \in DOMAIN saved) =>
        \A key \in AttrNames : attrs[key] = saved[last.name][key]

\* a load_state(s) that changed an attribute back to its saved value
C5_Witness ==
    /\ last.op = "load_state"
    /\ last.name \in DOMAIN saved
    /\ last.err = NoError
    /\ attrs /= last.pre.attrs
    /\ attrs = saved[last.name]

\* C6: set_setup_attributes()/setup() given recognized keys (with values the
\* setters accept) and an unknown key raises the unknown-attribute error,
\* the ValueError of the raise statement, and every recognized key has then
\* been applied.
C6_UnknownAttributeRejected ==
    (/\ last.op \in {"set_setup_attributes", "setup"}
     /\ UnknownKey \in DOMAIN last.kwds
     /\ \A key \in Recognized : last.kwds[key] \in Values) =>
        /\ last.err = "ValueError"
        /\ \A key \in Recognized : attrs[key] = last.kwds[key]

\* C6, what holds of the code: the exception is the KeyError of the failed
\* message formatting, raised after every recognized key has been applied.
C6_AppliedThenKeyError ==
    (/\ last.op \in {"set_setup_attributes", "setup"}
     /\ UnknownKey \in DOMAIN last.kwds
     /\ \A key \in Recognized : last.kwds[key] \in Values) =>
        /\ last.err = "KeyError(0)"
        /\ \A key \in Recognized : attrs[key] = last.kwds[key]

\* C7: load_state(name) of a name that is not in the states branch raises
\* the KeyError of load_state and changes nothing: the setup attributes, the
\* two flags and the owner are as before, setup() and the setup routine
\* were not called.
C7_MissingState ==
    (last.op = "load_state" /\ last.name \notin DOMAIN last.pre.states) =>
        /\ last.err = "KeyError(state)"
        /\ attrs = last.pre.attrs
        /\ callback_active = last.pre.callback_active
        /\ autosave_active = last.pre.autosave_active
        /\ owner = last.pre.owner
        /\ last.setupCalls = 0
        /\ last.setups = 0

C7_Witness ==
    /\ last.op = "load_state"
    /\ last.name \notin DOMAIN last.pre.states
    /\ last.err = "KeyError(state)"

\* C8: __enter__ returns the module itself, and when __exit__ ends the
\* module has no owner, whether the with-block ended normally or by an
\* exception and whether or not the re-setup of the release failed.
C8_ScopedAcquisition ==
    /\ last.op = "__enter__" => last.ret = SelfId
    /\ last.op = "__exit__" => owner = None

\* an owned module leaves a with-block whose body failed, and the re-setup
\* of the release fails too
C8_Witness ==
    /\ last.op = "__exit__"
    /\ last.name = "Exception"
    /\ last.pre.owner /= None
    /\ last.setupCalls = 1
    /\ last.err /= NoError
    /\ owner = None

\* C9: acquire(r) never fails: from any state it ends without an exception
\* with owner = r and autosave off, calls no setup() and changes no setup
\* attribute, on every module type.
C9_AcquireNeverFails ==
    last.op = "acquire" =>
        /\ last.err = NoError
        /\ owner = last.val
        /\ autosave_active = FALSE
        /\ last.setupCalls = 0
        /\ attrs = last.pre.attrs

\* C9, what holds of the code: the same on a HardwareModule; on another
\* module the owner and autosave are set and AttributeError is raised.
C9_AcquireOnHardware ==
    last.op = "acquire" =>
        /\ last.err = IF kind = "HardwareModule" THEN NoError ELSE "AttributeError"
        /\ owner = last.val
        /\ autosave_active = FALSE
        /\ last.setupCalls = 0
        /\ attrs = last.pre.attrs

\* C10: when the re-setup of a release fails (the config branch holds a key
\* that is no setup attribute, or the setup routine fails), the caller gets
\* the exception and the module stays released: owner is None, autosave and
\* callbacks are active.
C10_FailedReSetupKeepsRelease ==
    (/\ last.op \in Releases
     /\ last.setupCalls = 1
     /\ (UnknownKey \in DOMAIN last.pre.cfg \/ last.hook = "raise")) =>
        /\ last.err /= NoError
        /\ owner = None
        /\ autosave_active = TRUE
        /\ callback_active = TRUE

\* an owned module is released and the re-setup raises on the foreign key
C10_Witness ==
    /\ last.op = "free"
    /\ last.pre.owner /= None
    /\ last.setupCalls = 1
    /\ last.err = "KeyError(0)"
    /\ owner = None

\* the attributes a call has written, as a set
Written == {last.written[i] : i \in 1..Len(last.written)}

\* C11: every acquire and every release (free(), leaving a with-block; both
\* set owner to None) emits the change_ownership signal exactly once, at a
\* moment when _owner already holds its new value; for a release also when
\* the setup() that re-applies the config branch fails.  Stated for the
\* module class that defines the ownership_changed hook.
C11_OwnershipChangedEmitted ==
    (kind = "HardwareModule" /\ last.op \in {"acquire"} \cup Releases) =>
        /\ last.emits = 1
        /\ last.ownerAtEmit = {owner}

\* C11, what holds of the code: the signal is emitted once, with the new
\* owner in place, by the calls that end without an exception, and not at
\* all by the others.
C11_EmittedUnlessFailed ==
    last.op \in {"acquire"} \cup Releases =>
        /\ last.emits = (IF last.err = NoError THEN 1 ELSE 0)
        /\ last.ownerAtEmit \subseteq {owner}

\* C12: load_setup_attributes() writes exactly the keys of the config branch
\* that are setup attributes, each with the value of the branch, does not
\* raise because of the other keys of the branch, calls neither the callback
\* hook nor setup() nor the setup routine, and leaves _callback_active as it
\* found it.
C12_LoadSetupAttributes ==
    last.op = "load_setup_attributes" =>
        /\ last.err = NoError
        /\ Written = DOMAIN last.pre.cfg \cap AttrNames
        /\ Len(last.written) = Cardinality(Written)
        /\ \A key \in AttrNames :
               attrs[key] = IF key \in DOMAIN last.pre.cfg
                            THEN last.pre.cfg[key]
                            ELSE last.pre.attrs[key]
        /\ last.hooks = 0
        /\ last.setupCalls = 0
        /\ last.setups = 0
        /\ last.cbAtWrite \subseteq {FALSE}
        /\ callback_active = last.pre.callback_active

\* a branch with a setup attribute that differs from the current value and
\* with a key that is no setup attribute has been loaded
C12_Witness ==
    /\ last.op = "load_setup_attributes"
    /\ UnknownKey \in DOMAIN last.pre.cfg
    /\ \E key \in AttrNames : attrs[key] /= last.pre.attrs[key]
    /\ \E key \in AttrNames : key \notin DOMAIN last.pre.cfg
    /\ last.err = NoError

\* the signed and the unsigned range of a bit length, and congruence
\* modulo 2^bitlength
InSignedRange(a, bitlength) ==
    /\ Leq(Minus(Zero, Pow2(bitlength - 1)), a)
    /\ Leq(a, Minus(Pow2(bitlength - 1), FromInt(1)))
InUnsignedRange(a, bitlength) ==
    /\ Leq(Zero, a)
    /\ Leq(a, Minus(Pow2(bitlength), FromInt(1)))
Congruent(a, b, bitlength) ==
    LET d == Minus(a, b)
    IN  IF bitlength <= 16
        THEN d.lo % 2^bitlength = 0
        ELSE d.lo = 0 /\ d.hi % 2^(bitlength - 16) = 0

\* C13: for the bit lengths 8, 14, 16 and 32 and every v with
\* -2^(bitlength-1) <= v <= 2^(bitlength-1) - 1, decoding the encoded v
\* gives v back, and the encoded word lies in 0 .. 2^bitlength - 1.
C13_SignedRoundTrip ==
    (codec.pc = "dec" /\ InSignedRange(codec.v, codec.bitlength)) =>
        /\ codec.dec = codec.v
        /\ InUnsignedRange(codec.raw, codec.bitlength)

\* the most negative 32-bit value has been encoded and decoded
C13_Witness ==
    /\ codec.pc = "dec"
    /\ codec.bitlength = 32
    /\ codec.v = Minus(Zero, Pow2(31))
    /\ codec.raw = Pow2(31)
    /\ codec.dec = codec.v

\* C14: _from_pyint wraps silently: for every integer v, in or out of the
\* representable range, the word is v mod 2^bitlength (the one value of
\* 0 .. 2^bitlength - 1 congruent to v), so 2^bitlength encodes as 0; and
\* _to_pyint of any word is the one value of the signed range congruent to
\* the word, so it depends on the word modulo 2^bitlength only.
C14_SilentWrap ==
    /\ codec.pc \in {"raw", "dec"} =>
           /\ InUnsignedRange(codec.raw, codec.bitlength)
           /\ Congruent(codec.raw, codec.v, codec.bitlength)
           /\ codec.v = Pow2(codec.bitlength) => codec.raw = Zero
    /\ codec.pc \in {"word", "dec"} =>
           /\ InSignedRange(codec.dec, codec.bitlength)
           /\ Congruent(codec.dec, codec.v, codec.bitlength)

\* 2^bitlength has been encoded, and so has a value below the signed range
C14_Witness ==
    /\ codec.pc = "raw"
    /\ codec.bitlength = 32
    /\ \/ codec.v = Pow2(32) /\ codec.raw = Zero
       \/ codec.v = Minus(Zero, Plus(Pow2(32), FromInt(1)))
          /\ codec.raw = Minus(Pow2(32), FromInt(1))

\* C15: create_widget() builds the widget with _callback_active and
\* _autosave_active both False: the attribute writes of the widget's
\* constructor call neither the callback hook nor setup() and leave the
\* config branch as it was, on an owned and on an unowned module, whether
\* the constructor fails or not.
C15_WidgetConstruction ==
    last.op = "create_widget" =>
        /\ last.cbAtWrite \subseteq {FALSE}
        /\ last.asAtWrite \subseteq {FALSE}
        /\ last.hooks = 0
        /\ last.setupCalls = 0
        /\ last.setups = 0
        /\ cfg = last.pre.cfg

\* the constructor of the widget of an owned module has written an attribute
\* that is persisted with another value, and has then failed
C15_Witness ==
    /\ last.op = "create_widget"
    /\ last.pre.owner /= None
    /\ last.err = "WidgetError"
    /\ \E key \in Written :
           /\ key \in DOMAIN cfg
           /\ attrs[key] /= last.pre.attrs[key]
           /\ attrs[key] /= cfg[key]

\* path p lies in the section at path q
Under(p, q) == Len(q) <= Len(p) /\ SubSeq(p, 1, Len(q)) = q

\* C16, as stated: states are kept per instance, inside the section of the
\* instance: save_state(name) on one instance changes no section outside
\* that instance's own, so it neither creates nor overwrites a state that
\* another instance of the type lists or loads.
C16_StatesPerInstance ==
    slast.op = "save_state" =>
        /\ \A p \in Paths :
               ~Under(p, c_path(slast.inst)) => file[p] = slast.pre.file[p]
        /\ \A n \in Instances \ {slast.inst} :
               file[c_states_path(n)] = slast.pre.file[c_states_path(n)]

\* C16, amended: states are kept per module type, in the states section
\* next to the sections of the instances: save_state(name) on one instance
\* creates or overwrites, with the values of that instance, the state that
\* every instance of the type lists and loads under that name, and changes
\* nothing else: no section of an instance and no attribute.
C16_StatesPerType ==
    slast.op = "save_state" =>
        /\ \A n \in Instances :
               file[c_states_path(n)] =
                   Put(slast.pre.file[c_states_path(n)], slast.name,
                       slast.pre.insts[slast.inst])
        /\ \A p \in Paths \ {c_states_path(slast.inst)} :
               file[p] = slast.pre.file[p]
        /\ insts = slast.pre.insts
        /\ slast.err = NoError

\* one instance has overwritten, with other values, the state the other
\* instance would have loaded
C16_Witness ==
    /\ slast.op = "save_state"
    /\ \E n \in Instances \ {slast.inst} :
           /\ slast.name \in DOMAIN slast.pre.file[c_states_path(n)]
           /\ file[c_states_path(n)][slast.name]
                  /= slast.pre.file[c_states_path(n)][slast.name]
           /\ file[c_states_path(n)][slast.name] /= insts[n]

\* the positions of the last class body that hold descriptor d, the
\* descriptors it holds, and whether one of them is shared: held by two of
\* its fields, or held before by a field of an earlier type
Holding(d) == {i \in DOMAIN tlast.items : tlast.items[i][2] = d}
Held       == {d \in Descriptors : Holding(d) /= {}}
SharedDescriptor ==
    \E d \in Held : Cardinality(Holding(d)) > 1 \/ tlast.pre[d] /= Unnamed

C18_Construction ==
    last.op = "__init__" =>
        /\ last.asAtWrite \subseteq {FALSE}
        /\ cfg = last.pre.cfg
        /\ last.err = NoError =>
               /\ autosave_active = TRUE
               /\ callback_active = TRUE
               /\ owner = None

\* a constructor has returned whose hook wrote an attribute that the
\* config branch holds with another value, and the write called back
C18_Witness ==
    /\ last.op = "__init__"
    /\ last.err = NoError
    /\ last.hooks >= 1
    /\ \E key \in Written :
           /\ key \in DOMAIN cfg
           /\ attrs[key] /= cfg[key]
           /\ attrs[key] /= last.pre.attrs[key]

\* C19: a write of a callback attribute from outside setup(), with
\* _callback_active True, is followed by exactly one call of the callback
\* hook; the hook runs setup() without overrides, which runs the setup
\* routine exactly once, with callbacks off; the call ends, with
\* _callback_active True, also when the setup routine itself writes a
\* callback attribute: that write starts no further callback or setup().
C19_CallbackOnce ==
    (/\ last.op = "setattr"
     /\ last.key \in CallbackSet
     /\ last.val \in Values
     /\ last.pre.callback_active) =>
        /\ last.hooks = 1
        /\ last.setupCalls = 1
        /\ last.setups = 1
        /\ Head(last.written) = last.key
        /\ last.cbAtSetup = {FALSE}
        /\ last.err \in {NoError, "SetupError"}
        /\ callback_active = TRUE

\* a write has ended whose callback ran a setup routine that wrote a
\* callback attribute in its turn
C19_Witness ==
    /\ last.op = "setattr"
    /\ last.hook = "write"
    /\ last.key \in CallbackSet
    /\ Len(last.written) = 2
    /\ last.written[2] \in CallbackSet
    /\ last.hooks = 1
    /\ last.err = NoError

\* the place of a setup attribute in the declaration
Declared(key) == CHOOSE i \in 1..Len(setup_attributes) : setup_attributes[i] = key

\* C20: setup(**kwds) writes only the setup attributes named in kwds: an
\* attribute that kwds does not name keeps the value it has in memory,
\* whatever the config branch holds for it; and the named attributes are
\* written in the order of their declaration, each once, however the
\* caller ordered them.
C20_OnlyOverrides ==
    last.op = "setup" =>
        /\ \A key \in AttrNames \ DOMAIN last.kwds :
               attrs[key] = last.pre.attrs[key]
        /\ Written \subseteq DOMAIN last.kwds
        /\ \A key \in Written : attrs[key] = last.kwds[key]
        /\ \A i, j \in 1..Len(last.written) :
               i < j => Declared(last.written[i]) < Declared(last.written[j])
        /\ last.err = NoError => Written = Recognized

\* setup() was called with an override for the last attribute only, while
\* the first is persisted with another value than it has in memory
C20_Witness ==
    /\ last.op = "setup"
    /\ last.err = NoError
    /\ DOMAIN last.kwds = {setup_attributes[2]}
    /\ last.written = <<setup_attributes[2]>>
    /\ attrs[setup_attributes[2]] /= last.pre.attrs[setup_attributes[2]]
    /\ setup_attributes[1] \in DOMAIN cfg
    /\ cfg[setup_attributes[1]] /= attrs[setup_attributes[1]]

\* the calls that end a bulk phase of their own
BulkCalls ==
    {"self.setup()", "module.setup()", "module.load_state('s')", "module.free()"}

\* C21: the suppression of callbacks nests: set_setup_attributes() ends with
\* _callback_active as it found it, whether it raises or not; and a call
\* that ends a bulk phase of its own (setup(), load_state(), free()), made
\* while an enclosing setup() or create_widget() has the callbacks off,
\* returns with the callbacks still off.
C21_SuppressionNests ==
    /\ \A p \in last.inner : p[2] = FALSE => p[3] = FALSE
    /\ last.op = "set_setup_attributes" =>
           callback_active = last.pre.callback_active

\* C21, what holds of the code: set_setup_attributes() ends with the flag
\* as it found it also when called with the callbacks off, and so does an
\* inner call that raises before it reaches setup(); every inner call that
\* runs setup() to its end returns with the callbacks on.
C21_OnlySetSetupAttributesNests ==
    \A p \in last.inner :
        /\ p[1] \notin BulkCalls => p[3] = p[2]
        /\ p[3] /= p[2] => p[1] \in BulkCalls /\ p[3] = TRUE
        /\ p[1] \in {"self.setup()", "module.setup()"} => p[3] = TRUE

\* the frames of setup() calls that have switched the callbacks off and not
\* yet reached the end of the finally clause: they apply overrides, run
\* the setup routine, or wait for a callback they started
BulkPoints == {"ssa:222", "ssa:223", "ssa:225", "setup:92", "setup:95"}
InBulk(f)  == f.pc \in BulkPoints

====
